---- MODULE Spec2Model ----
(***************************************************************************)
(* Model of AbstractBitConfig                                              *)
(* (src/src/consumer/bit-config/abstract-bit-config.js): the environment   *)
(* normalisation, the dependency merge, the canonical plain object and     *)
(* the two-destination write.                                              *)
(*                                                                         *)
(* JavaScript values are tagged records so that a string, an object and    *)
(* undefined can be told apart: Undefined, Str(s), Obj(o).  An object is   *)
(* the sequence of its [k, v] pairs in insertion order (Object.keys order).*)
(***************************************************************************)
EXTENDS Integers, Sequences, FiniteSets, TLC

VARIABLES given, _compiler, _tester, lang, bindingPrefix, extensions,
          dependencies, path, writeToPackageJson, writeToBitJson, pristine,
          bitJsonFile, packageJsonFile, pc, jsonFiles, written, last

vars == <<given, _compiler, _tester, lang, bindingPrefix, extensions,
          dependencies, path, writeToPackageJson, writeToBitJson, pristine,
          bitJsonFile, packageJsonFile, pc, jsonFiles, written, last>>

configVars == <<_compiler, _tester, lang, bindingPrefix, extensions, dependencies,
                path, writeToPackageJson, writeToBitJson>>
fsVars == <<bitJsonFile, packageJsonFile>>
writeVars == <<pc, jsonFiles, written>>

(* ---------------- bounds ---------------- *)
MaxIds == 2

(* ---------------- constants of the program ---------------- *)
BIT_JSON == "bit.json"
PACKAGE_JSON == "package.json"
NO_PLUGIN_TYPE == "none"
COMPILER_ENV_TYPE == "compiler"
TESTER_ENV_TYPE == "tester"
DEFAULT_LANGUAGE == "javascript"
DEFAULT_BINDINGS_PREFIX == "@bit"

(* ---------------- JavaScript values ---------------- *)
Undefined == [kind |-> "undefined", s |-> "", o |-> <<>>]
Null == [kind |-> "null", s |-> "", o |-> <<>>]
Str(s) == [kind |-> "string", s |-> s, o |-> <<>>]
Obj(o) == [kind |-> "object", s |-> "", o |-> o]

DEFAULT_EXTENSIONS == Obj(<<>>)

\* !v
Falsy(v) == v.kind \in {"undefined", "null"} \/ (v.kind = "string" /\ v.s = "")
\* a || b
OrElse(a, b) == IF Falsy(a) THEN b ELSE a

\* R.isEmpty: true of {}, [] and '' only (not of undefined or null)
R_isEmpty(v) == (v.kind = "object" /\ v.o = <<>>) \/ (v.kind = "string" /\ v.s = "")

\* RA.isNilOrEmpty on the value of an entry's field; the field values are the
\* tokens below, "undefined" standing for a key the entry does not have
RA_isNilOrEmpty(tok) == tok \in {"undefined", "null", "{}", "[]"}

Keys(o) == [i \in 1..Len(o) |-> o[i].k]
HasKey(o, k) == \E i \in 1..Len(o) : o[i].k = k
Get(o, k) == o[CHOOSE i \in 1..Len(o) : o[i].k = k].v

\* Object.assign({}, l, r) on pair sequences: a key of r that l has keeps l's
\* position and takes r's value, the other keys of r are appended in r's order
RECURSIVE ObjAssign(_, _)
ObjAssign(l, r) ==
  IF r = <<>> THEN l
  ELSE LET h == Head(r)
           l2 == IF HasKey(l, h.k)
                 THEN [i \in 1..Len(l) |-> IF l[i].k = h.k THEN h ELSE l[i]]
                 ELSE Append(l, h)
       IN ObjAssign(l2, Tail(r))

\* R.merge(l, r): Object.assign({}, l, r); an undefined l contributes nothing
R_merge(l, r) == Obj(ObjAssign(IF l.kind = "object" THEN l.o ELSE <<>>,
                               IF r.kind = "object" THEN r.o ELSE <<>>))

\* R.mergeAll(list): the left-to-right merge of the list's objects into {}
RECURSIVE R_mergeAll(_)
R_mergeAll(list) ==
  IF list = <<>> THEN Obj(<<>>)
  ELSE R_merge(Head(list), R_mergeAll(Tail(list)))

(* ---------------- environment normalisation ---------------- *)
\* the entry `{}` that a bare name gets
EmptyEntry == [rawConfig |-> "undefined", options |-> "undefined", files |-> "undefined"]

transformEnvToObject_NoSentinel(env) ==
  IF env.kind = "string" THEN Obj(<<[k |-> env.s, v |-> EmptyEntry]>>) ELSE env

transformEnvToObject(env) ==
  IF env.kind = "string"
  THEN IF env.s = NO_PLUGIN_TYPE THEN Obj(<<>>)
       ELSE Obj(<<[k |-> env.s, v |-> EmptyEntry]>>)
  ELSE env

\* get compiler()
compiler ==
  LET compilerObj == transformEnvToObject(_compiler)
  IN IF R_isEmpty(compilerObj) THEN Undefined ELSE compilerObj

\* get tester()
tester ==
  LET testerObj == transformEnvToObject(_tester)
  IN IF R_isEmpty(testerObj) THEN Undefined ELSE testerObj

hasCompiler ==
  /\ ~Falsy(compiler)
  /\ _compiler # Str(NO_PLUGIN_TYPE)
  /\ ~R_isEmpty(compiler)

hasTester ==
  /\ ~Falsy(tester)
  /\ _tester # Str(NO_PLUGIN_TYPE)
  /\ ~R_isEmpty(tester)

getEnvsByType(type) == IF type = COMPILER_ENV_TYPE THEN compiler ELSE tester

getBackwardCompatibleEnv_KeepObject(type) == getEnvsByType(type)

getBackwardCompatibleEnv(type) ==
  LET envObj == getEnvsByType(type)
  IN IF Falsy(envObj) THEN Undefined
     ELSE IF Len(envObj.o) # 1 THEN envObj
     ELSE LET envId == envObj.o[1].k
              e == envObj.o[1].v
          IN IF /\ RA_isNilOrEmpty(e.rawConfig)
                /\ RA_isNilOrEmpty(e.options)
                /\ RA_isNilOrEmpty(e.files)
             THEN Str(envId)
             ELSE envObj

(* ---------------- environment loading ---------------- *)
getEnvsProps_NoOptions(consumerPath, scopePath, envName, envObject, bitJsonPath, envType, context) ==
  [name |-> envName, consumerPath |-> consumerPath, scopePath |-> scopePath,
   rawConfig |-> envObject.rawConfig, files |-> envObject.files,
   bitJsonPath |-> bitJsonPath, envType |-> envType, context |-> context]

getEnvsProps(consumerPath, scopePath, envName, envObject, bitJsonPath, envType, context) ==
  [name |-> envName, consumerPath |-> consumerPath, scopePath |-> scopePath,
   rawConfig |-> envObject.rawConfig, files |-> envObject.files,
   bitJsonPath |-> bitJsonPath, options |-> envObject.options,
   envType |-> envType, context |-> context]

\* loadEnv: the calls made to loadFunc and the value returned; loadRet is what
\* loadFunc resolves to when it is called
loadEnv_AlwaysLoads(envType, consumerPath, scopePath, context, loadRet) ==
  LET envs == getEnvsByType(envType)
      envName == IF Falsy(envs) THEN "undefined" ELSE envs.o[1].k
      envObject == IF Falsy(envs) THEN EmptyEntry ELSE envs.o[1].v
      envProps == getEnvsProps(consumerPath, scopePath, envName, envObject, path, envType, context)
  IN [calls |-> <<envProps>>, ret |-> loadRet]

loadEnv(envType, consumerPath, scopePath, context, loadRet) ==
  LET envs == getEnvsByType(envType)
  IN IF Falsy(envs) THEN [calls |-> <<>>, ret |-> "undefined"]
     ELSE LET envName == envs.o[1].k
              envObject == envs.o[1].v
              envProps == getEnvsProps(consumerPath, scopePath, envName, envObject,
                                       path, envType, context)
          IN [calls |-> <<envProps>>, ret |-> loadRet]

loadCompiler(consumerPath, scopePath, context, loadRet) ==
  IF ~hasCompiler THEN [calls |-> <<>>, ret |-> "null"]
  ELSE loadEnv(COMPILER_ENV_TYPE, consumerPath, scopePath, context, loadRet)

loadTester(consumerPath, scopePath, context, loadRet) ==
  IF ~hasTester THEN [calls |-> <<>>, ret |-> "null"]
  ELSE loadEnv(TESTER_ENV_TYPE, consumerPath, scopePath, context, loadRet)

(* ---------------- dependencies ---------------- *)
\* BitId.toObject(): the flat object { [key]: version } of a component id
BitId_toObject(bitId) == Obj(<<[k |-> bitId.key, v |-> Str(bitId.version)]>>)

addDependency_KeepExisting(bitId) == R_merge(BitId_toObject(bitId), dependencies)

\* the value addDependency assigns to this.dependencies
addDependency(bitId) == R_merge(dependencies, BitId_toObject(bitId))

\* the value addDependencies assigns to this.dependencies
addDependencies(bitIds) ==
  LET idObjects == R_mergeAll([i \in 1..Len(bitIds) |-> BitId_toObject(bitIds[i])])
  IN R_merge(dependencies, idObjects)

(* ---------------- canonical plain object ---------------- *)
isPropDefaultOrNull(val, key) ==
  IF Falsy(val) THEN FALSE
  ELSE IF key = "lang" THEN val # Str(DEFAULT_LANGUAGE)
  ELSE IF key = "bindingPrefix" THEN val # Str(DEFAULT_BINDINGS_PREFIX)
  ELSE IF key = "extensions" THEN val # DEFAULT_EXTENSIONS
  ELSE TRUE

\* filterObject(candidate, isPropDefaultOrNull) keeps the pairs the predicate
\* accepts
toPlainObject ==
  LET candidate ==
        Obj(<<[k |-> "lang", v |-> lang],
              [k |-> "bindingPrefix", v |-> bindingPrefix],
              [k |-> "env", v |-> Obj(<<[k |-> "compiler", v |-> getBackwardCompatibleEnv(COMPILER_ENV_TYPE)],
                                        [k |-> "tester", v |-> getBackwardCompatibleEnv(TESTER_ENV_TYPE)]>>)],
              [k |-> "dependencies", v |-> dependencies],
              [k |-> "extensions", v |-> extensions]>>)
  IN Obj(SelectSeq(candidate.o, LAMBDA p : isPropDefaultOrNull(p.v, p.k)))

(* ---------------- files ---------------- *)
\* JSON.stringify drops the keys whose value is undefined; a file holds the
\* value that parsing its text gives back
DropUndefined(obj) == Obj(SelectSeq(obj.o, LAMBDA p : p.v.kind # "undefined"))

\* the JSON form of a plain config object (its env is the only nested object
\* that can hold undefined values)
JsonOfPlain(plain) ==
  LET top == DropUndefined(plain)
  IN Obj([i \in 1..Len(top.o) |->
            IF top.o[i].k = "env"
            THEN [k |-> "env", v |-> DropUndefined(top.o[i].v)]
            ELSE top.o[i]])

\* the JSON form of a package descriptor whose bit field is a plain config object
JsonOfPackage(pkg) ==
  LET top == DropUndefined(pkg)
  IN Obj([i \in 1..Len(top.o) |->
            IF top.o[i].k = "bit"
            THEN [k |-> "bit", v |-> JsonOfPlain(top.o[i].v)]
            ELSE top.o[i]])

NoFile == [exists |-> FALSE, content |-> Obj(<<>>)]
File(content) == [exists |-> TRUE, content |-> content]

composeBitJsonPath(bitPath) == <<bitPath, BIT_JSON>>
composePackageJsonPath(bitPath) == <<bitPath, PACKAGE_JSON>>

\* JSONFile.load(params): the staged file, its contents serialised at load time
JSONFile_load(pathStr, json) == [path |-> pathStr, contents |-> json, override |-> TRUE]

prepareToWrite_SkipMissing(bitDir) ==
  LET plainObject == toPlainObject
      pkg == IF writeToPackageJson /\ packageJsonFile.exists
             THEN <<JSONFile_load(composePackageJsonPath(bitDir),
                      JsonOfPackage(Obj(ObjAssign(packageJsonFile.content.o,
                                                  <<[k |-> "bit", v |-> plainObject]>>))))>>
             ELSE <<>>
      bit == IF writeToBitJson
             THEN <<JSONFile_load(composeBitJsonPath(bitDir), JsonOfPlain(plainObject))>>
             ELSE <<>>
  IN [threw |-> FALSE, JsonFiles |-> pkg \o bit]

prepareToWrite_ElseIf(bitDir) ==
  LET plainObject == toPlainObject
  IN IF writeToPackageJson /\ ~packageJsonFile.exists
     THEN [threw |-> TRUE, JsonFiles |-> <<>>]
     ELSE IF writeToPackageJson
     THEN [threw |-> FALSE,
           JsonFiles |-> <<JSONFile_load(composePackageJsonPath(bitDir),
                             JsonOfPackage(Obj(ObjAssign(packageJsonFile.content.o,
                                                         <<[k |-> "bit", v |-> plainObject]>>))))>>]
     ELSE [threw |-> FALSE,
           JsonFiles |-> IF writeToBitJson
                         THEN <<JSONFile_load(composeBitJsonPath(bitDir), JsonOfPlain(plainObject))>>
                         ELSE <<>>]

\* prepareToWrite: the staged files, or the rejection of fs.readJson when the
\* package descriptor is to be written and does not exist
prepareToWrite(bitDir) ==
  LET plainObject == toPlainObject
  IN IF writeToPackageJson /\ ~packageJsonFile.exists
     THEN [threw |-> TRUE, JsonFiles |-> <<>>]
     ELSE LET pkg == IF writeToPackageJson
                     THEN <<JSONFile_load(composePackageJsonPath(bitDir),
                              JsonOfPackage(Obj(ObjAssign(packageJsonFile.content.o,
                                                          <<[k |-> "bit", v |-> plainObject]>>))))>>
                     ELSE <<>>
              bit == IF writeToBitJson
                     THEN <<JSONFile_load(composeBitJsonPath(bitDir), JsonOfPlain(plainObject))>>
                     ELSE <<>>
          IN [threw |-> FALSE, JsonFiles |-> pkg \o bit]

(* ---------------- inputs ---------------- *)
EnvNames == {"a", "b"}

ConfiguredEntries ==
  { [rawConfig |-> "{}", options |-> "{}", files |-> "[]"],
    [rawConfig |-> "{x:1}", options |-> "{o:1}", files |-> "[f]"],
    [rawConfig |-> "undefined", options |-> "undefined", files |-> "[f]"] }

Entries == {EmptyEntry} \cup ConfiguredEntries

EnvObjects ==
  {Obj(<<>>)}
  \cup {Obj(<<[k |-> n, v |-> e]>>) : n \in EnvNames, e \in Entries}
  \cup {Obj(<<[k |-> "a", v |-> EmptyEntry], [k |-> "b", v |-> EmptyEntry]>>),
        Obj(<<[k |-> "b", v |-> [rawConfig |-> "{x:1}", options |-> "{o:1}", files |-> "[f]"]],
              [k |-> "a", v |-> EmptyEntry]>>)}

\* what a caller may give as compiler or tester: a string or an environment set
EnvInputs == {Str(""), Str(NO_PLUGIN_TYPE)} \cup {Str(n) : n \in EnvNames} \cup EnvObjects

DepKeys == {"foo", "bar"}
Versions == {"1.0.0", "2.0.0"}
BitIds == [key : DepKeys, version : Versions]
IdLists == UNION {[1..n -> BitIds] : n \in 0..MaxIds}

CustomExtensions == Obj(<<[k |-> "ext", v |-> [rawConfig |-> "{}", options |-> "{}"]]>>)

NoProps == [compiler |-> Undefined, tester |-> Undefined, lang |-> Undefined,
            bindingPrefix |-> Undefined, extensions |-> Undefined,
            dependencies |-> Undefined]

(* ---------------- construction ---------------- *)
\* the fields after `new AbstractBitConfig(p)`: the constructor assigns
\* _compiler, _tester, lang, bindingPrefix and extensions and nothing else;
\* the two write flags are set by the subclass (wpj, wbj)
Construct(p, wpj, wbj) ==
  /\ _compiler = OrElse(p.compiler, Obj(<<>>))
  /\ _tester = OrElse(p.tester, Obj(<<>>))
  /\ lang = OrElse(p.lang, Str(DEFAULT_LANGUAGE))
  /\ bindingPrefix = OrElse(p.bindingPrefix, Str(DEFAULT_BINDINGS_PREFIX))
  /\ extensions = OrElse(p.extensions, DEFAULT_EXTENSIONS)
  /\ dependencies = Undefined
  /\ writeToPackageJson = wpj
  /\ writeToBitJson = wbj
  /\ path = "/ws/components/c"
  /\ pristine = TRUE
  /\ given = [p EXCEPT !.compiler = [via |-> "constructor", val |-> p.compiler],
                       !.tester = [via |-> "constructor", val |-> p.tester]]
  /\ pc = "idle"
  /\ jsonFiles = <<>>
  /\ written = {}
  /\ last = [op |-> "new"]

(* ---------------- operations on the model ---------------- *)
\* set compiler(c)
SetCompiler(c) ==
  /\ pc = "idle"
  /\ _compiler' = transformEnvToObject(c)
  /\ given' = [given EXCEPT !.compiler = [via |-> "setter", val |-> c]]
  /\ pristine' = FALSE
  /\ last' = [op |-> "set compiler"]
  /\ UNCHANGED <<_tester, lang, bindingPrefix, extensions, dependencies, path,
                 writeToPackageJson, writeToBitJson, fsVars, writeVars>>

\* set tester(t)
SetTester(t) ==
  /\ pc = "idle"
  /\ _tester' = transformEnvToObject(t)
  /\ given' = [given EXCEPT !.tester = [via |-> "setter", val |-> t]]
  /\ pristine' = FALSE
  /\ last' = [op |-> "set tester"]
  /\ UNCHANGED <<_compiler, lang, bindingPrefix, extensions, dependencies, path,
                 writeToPackageJson, writeToBitJson, fsVars, writeVars>>

AddDependency(bitId) ==
  /\ pc = "idle"
  /\ dependencies' = addDependency(bitId)
  /\ pristine' = FALSE
  /\ last' = [op |-> "addDependency", arg |-> bitId, pre |-> dependencies,
              prePlain |-> toPlainObject, ret |-> "this"]
  /\ UNCHANGED <<given, _compiler, _tester, lang, bindingPrefix, extensions,
                 path, writeToPackageJson, writeToBitJson, fsVars, writeVars>>

AddDependencies(bitIds) ==
  /\ pc = "idle"
  /\ dependencies' = addDependencies(bitIds)
  /\ pristine' = FALSE
  /\ last' = [op |-> "addDependencies", arg |-> bitIds, pre |-> dependencies,
              prePlain |-> toPlainObject, ret |-> "this"]
  /\ UNCHANGED <<given, _compiler, _tester, lang, bindingPrefix, extensions,
                 path, writeToPackageJson, writeToBitJson, fsVars, writeVars>>

ToPlainObject ==
  /\ pc = "idle"
  /\ last' = [op |-> "toPlainObject", fresh |-> pristine, ret |-> toPlainObject]
  /\ UNCHANGED <<given, configVars, pristine, fsVars, writeVars>>

GetBackwardCompatibleEnv(type) ==
  /\ pc = "idle"
  /\ last' = [op |-> "getBackwardCompatibleEnv", type |-> type,
              ret |-> getBackwardCompatibleEnv(type)]
  /\ UNCHANGED <<given, configVars, pristine, fsVars, writeVars>>

\* the three loaders; loadFunc (the extension's load) resolves to a handle or
\* to nothing
LoadRets == {"handle", "undefined"}
ConsumerPaths == {"/ws"}
ScopePaths == {"/ws/.bit"}
Contexts == {"undefined", "ctx"}

LoadCompiler(consumerPath, scopePath, context, loadRet) ==
  /\ pc = "idle"
  /\ last' = [op |-> "loadCompiler", type |-> COMPILER_ENV_TYPE,
              consumerPath |-> consumerPath, scopePath |-> scopePath, context |-> context,
              r |-> loadCompiler(consumerPath, scopePath, context, loadRet)]
  /\ UNCHANGED <<given, configVars, pristine, fsVars, writeVars>>

LoadTester(consumerPath, scopePath, context, loadRet) ==
  /\ pc = "idle"
  /\ last' = [op |-> "loadTester", type |-> TESTER_ENV_TYPE,
              consumerPath |-> consumerPath, scopePath |-> scopePath, context |-> context,
              r |-> loadTester(consumerPath, scopePath, context, loadRet)]
  /\ UNCHANGED <<given, configVars, pristine, fsVars, writeVars>>

LoadEnv(envType, consumerPath, scopePath, context, loadRet) ==
  /\ pc = "idle"
  /\ last' = [op |-> "loadEnv", type |-> envType,
              consumerPath |-> consumerPath, scopePath |-> scopePath, context |-> context,
              r |-> loadEnv(envType, consumerPath, scopePath, context, loadRet)]
  /\ UNCHANGED <<given, configVars, pristine, fsVars, writeVars>>

(* ---------------- write ---------------- *)
BitDir == "/ws"

\* write({bitDir}) up to the end of prepareToWrite: either fs.readJson rejects
\* and write rejects with it, or the files are staged
Write ==
  /\ pc = "idle"
  /\ LET staged == prepareToWrite(BitDir)
     IN /\ pc' = IF staged.threw THEN "idle" ELSE "writing"
        /\ jsonFiles' = staged.JsonFiles
        /\ last' = [op |-> "write",
                    status |-> IF staged.threw THEN "rejected" ELSE "pending",
                    prePackageJson |-> packageJsonFile, preBitJson |-> bitJsonFile,
                    plain |-> toPlainObject, ret |-> <<>>]
  /\ written' = {}
  /\ UNCHANGED <<given, configVars, pristine, fsVars>>

\* jsonFile.write() of one staged file; the staged files are written in any order
JSONFileWrite(i) ==
  /\ pc = "writing"
  /\ i \in (1..Len(jsonFiles)) \ written
  /\ IF jsonFiles[i].path = composePackageJsonPath(BitDir)
     THEN /\ packageJsonFile' = File(jsonFiles[i].contents)
          /\ UNCHANGED bitJsonFile
     ELSE /\ bitJsonFile' = File(jsonFiles[i].contents)
          /\ UNCHANGED packageJsonFile
  /\ written' = written \cup {i}
  /\ UNCHANGED <<given, configVars, pristine, pc, jsonFiles, last>>

\* Promise.all resolves with the paths, in the order staged
WriteResolve ==
  /\ pc = "writing"
  /\ written = 1..Len(jsonFiles)
  /\ pc' = "idle"
  /\ last' = [last EXCEPT !.status = "resolved",
                          !.ret = [i \in 1..Len(jsonFiles) |-> jsonFiles[i].path]]
  /\ jsonFiles' = <<>>
  /\ written' = {}
  /\ UNCHANGED <<given, configVars, pristine, fsVars>>

(* ---------------- removeIfExist ---------------- *)
\* fs.exists(path) without a callback returns a promise of the answer
fs_exists(p) == [kind |-> "promise", s |-> "", o |-> <<>>]

RemoveIfExist ==
  /\ pc = "idle"
  /\ LET dirToRemove == composeBitJsonPath(BitDir)
     IN IF ~Falsy(fs_exists(dirToRemove))
        THEN /\ bitJsonFile' = NoFile
             /\ last' = [op |-> "removeIfExist", existed |-> bitJsonFile.exists,
                         logged |-> 1, removeCalls |-> 1, ret |-> "undefined"]
        ELSE /\ UNCHANGED bitJsonFile
             /\ last' = [op |-> "removeIfExist", existed |-> bitJsonFile.exists,
                         logged |-> 0, removeCalls |-> 0, ret |-> "false"]
  /\ UNCHANGED <<given, configVars, pristine, packageJsonFile, writeVars>>

(* ---------------- specifications ---------------- *)
OldBitJson == File(Obj(<<[k |-> "lang", v |-> Str("old")]>>))
PackageJsons ==
  { NoFile,
    File(Obj(<<[k |-> "name", v |-> Str("pkg")]>>)),
    File(Obj(<<[k |-> "name", v |-> Str("pkg")], [k |-> "bit", v |-> OldBitJson.content]>>)) }

WriteProps ==
  { NoProps,
    [NoProps EXCEPT !.compiler = Str("a"), !.lang = Str("typescript")],
    [NoProps EXCEPT !.tester = Obj(<<[k |-> "b", v |-> [rawConfig |-> "{x:1}",
                                     options |-> "undefined", files |-> "[f]"]]>>),
                    !.extensions = CustomExtensions] }

\* the model and its two files: write, removeIfExist and the mutations between
Init ==
  /\ \E p \in WriteProps, wpj \in BOOLEAN, wbj \in BOOLEAN : Construct(p, wpj, wbj)
  /\ bitJsonFile \in {NoFile, OldBitJson}
  /\ packageJsonFile \in PackageJsons

Next ==
  \/ Write
  \/ \E i \in 1..2 : JSONFileWrite(i)
  \/ WriteResolve
  \/ RemoveIfExist
  \/ \E id \in BitIds : AddDependency(id)

Spec == Init /\ [][Next]_vars

\* the environments of a model: setters, backward-compatible form, loaders
InitEnv ==
  /\ \E c \in {Undefined} \cup EnvInputs, t \in {Undefined} \cup EnvInputs :
       Construct([NoProps EXCEPT !.compiler = c, !.tester = t], FALSE, TRUE)
  /\ bitJsonFile = NoFile
  /\ packageJsonFile = NoFile

NextEnv ==
  \/ \E c \in EnvInputs : SetCompiler(c)
  \/ \E t \in EnvInputs : SetTester(t)
  \/ \E type \in {COMPILER_ENV_TYPE, TESTER_ENV_TYPE} : GetBackwardCompatibleEnv(type)
  \/ \E cp \in ConsumerPaths, sp \in ScopePaths, ctx \in Contexts, r \in LoadRets :
       \/ LoadCompiler(cp, sp, ctx, r)
       \/ LoadTester(cp, sp, ctx, r)
       \/ \E type \in {COMPILER_ENV_TYPE, TESTER_ENV_TYPE} : LoadEnv(type, cp, sp, ctx, r)

SpecEnv == InitEnv /\ [][NextEnv]_vars

\* the canonical form of a model: construction, dependency merges, toPlainObject
ConfigProps ==
  [compiler : {Undefined, Str("a")},
   tester : {Undefined},
   lang : {Undefined, Str(DEFAULT_LANGUAGE), Str("typescript")},
   bindingPrefix : {Undefined, Str(DEFAULT_BINDINGS_PREFIX), Str("@x")},
   extensions : {Undefined, DEFAULT_EXTENSIONS, CustomExtensions},
   dependencies : {Undefined, Obj(<<[k |-> "foo", v |-> Str("1.0.0")]>>)}]

InitCfg ==
  /\ \E p \in ConfigProps : Construct(p, FALSE, TRUE)
  /\ bitJsonFile = NoFile
  /\ packageJsonFile = NoFile

NextCfg ==
  \/ \E id \in BitIds : AddDependency(id)
  \/ \E ids \in IdLists : AddDependencies(ids)
  \/ ToPlainObject

SpecCfg == InitCfg /\ [][NextCfg]_vars

(* ---------------- properties ---------------- *)
LoadOps == {"loadCompiler", "loadTester", "loadEnv"}

\* C1: when writeToPackageJson is set and package.json does not exist, write()
\* fails, and it fails before any file is written: bit.json (and package.json)
\* are what they were before the call, whatever writeToBitJson is.
C1_MissingPackageJsonIsFatal ==
  (last.op = "write" /\ writeToPackageJson /\ ~last.prePackageJson.exists)
    => /\ last.status = "rejected"
       /\ pc = "idle"
       /\ bitJsonFile = last.preBitJson
       /\ packageJsonFile = last.prePackageJson

C1_Witness ==
  /\ last.op = "write"
  /\ last.status = "rejected"
  /\ writeToPackageJson
  /\ writeToBitJson
  /\ ~bitJsonFile.exists

\* C2: with both write flags set and package.json present, write() resolves
\* with exactly two paths (package.json, then bit.json), and afterwards the bit
\* field of package.json equals the whole content of bit.json, both being the
\* one plain object computed at the start of the call.
C2_DualWrite ==
  (last.op = "write" /\ writeToPackageJson /\ writeToBitJson /\ last.prePackageJson.exists)
    => /\ last.status # "rejected"
       /\ last.status = "resolved" =>
            /\ Len(last.ret) = 2
            /\ last.ret = <<composePackageJsonPath(BitDir), composeBitJsonPath(BitDir)>>
            /\ packageJsonFile.exists
            /\ bitJsonFile.exists
            /\ HasKey(packageJsonFile.content.o, "bit")
            /\ Get(packageJsonFile.content.o, "bit") = bitJsonFile.content
            /\ bitJsonFile.content = JsonOfPlain(last.plain)

C2_Witness ==
  /\ last.op = "write"
  /\ last.status = "resolved"
  /\ writeToPackageJson
  /\ writeToBitJson
  /\ HasKey(bitJsonFile.content.o, "dependencies")
  /\ Get(packageJsonFile.content.o, "bit") = bitJsonFile.content

\* the plain object the model was constructed from: the keys that were given
GivenPlain ==
  DropUndefined(Obj(<<
    [k |-> "lang", v |-> given.lang],
    [k |-> "bindingPrefix", v |-> given.bindingPrefix],
    [k |-> "env", v |-> IF given.compiler.val = Undefined /\ given.tester.val = Undefined
                        THEN Undefined
                        ELSE Obj(<<[k |-> "compiler", v |-> given.compiler.val],
                                   [k |-> "tester", v |-> given.tester.val]>>)],
    [k |-> "dependencies", v |-> given.dependencies],
    [k |-> "extensions", v |-> given.extensions]>>))

WithoutDefaults(P) ==
  Obj(SelectSeq(P.o, LAMBDA p :
        /\ ~(p.k = "lang" /\ p.v = Str(DEFAULT_LANGUAGE))
        /\ ~(p.k = "bindingPrefix" /\ p.v = Str(DEFAULT_BINDINGS_PREFIX))
        /\ ~(p.k = "extensions" /\ p.v = DEFAULT_EXTENSIONS)))

WithoutEmptyEnv(P) ==
  Obj(SelectSeq(P.o, LAMBDA p : ~(p.k = "env" /\ p.v = Obj(<<>>))))

\* C3: round trip: toPlainObject() of a model just constructed from the plain
\* object P is P without its default-valued lang, bindingPrefix and extensions
\* (so {lang: default, bindingPrefix: default, dependencies: D} gives
\* {dependencies: D}).
\* (an env that serialises to {} is taken to be the same as no env key)
C3_RoundTrip ==
  (last.op = "toPlainObject" /\ last.fresh)
    => WithoutEmptyEnv(JsonOfPlain(last.ret))
         = WithoutEmptyEnv(JsonOfPlain(WithoutDefaults(GivenPlain)))

\* C4: backward-compatibility law: on a model whose compiler (tester) is the
\* bare name s, a non-empty string other than the no-plugin sentinel, given to
\* the constructor or to the setter, getBackwardCompatibleEnv returns the
\* string s.
C4_BackwardCompatible ==
  (last.op = "getBackwardCompatibleEnv"
     /\ given[last.type].val \in {Str(n) : n \in EnvNames})
    => last.ret = given[last.type].val

C4_Witness ==
  /\ last.op = "getBackwardCompatibleEnv"
  /\ last.type = COMPILER_ENV_TYPE
  /\ given.compiler = [via |-> "setter", val |-> Str("a")]
  /\ last.ret = Str("a")

\* C5: sentinel law: the no-plugin sentinel normalises to the empty set, and
\* on a model whose compiler (tester) is the sentinel, from the constructor or
\* from the setter, the getter gives undefined and hasCompiler (hasTester) is
\* false.
C5_Sentinel ==
  /\ transformEnvToObject(Str(NO_PLUGIN_TYPE)) = Obj(<<>>)
  /\ given.compiler.val = Str(NO_PLUGIN_TYPE) => (compiler = Undefined /\ ~hasCompiler)
  /\ given.tester.val = Str(NO_PLUGIN_TYPE) => (tester = Undefined /\ ~hasTester)

C5_Witness ==
  /\ given.compiler = [via |-> "setter", val |-> Str(NO_PLUGIN_TYPE)]
  /\ given.tester = [via |-> "constructor", val |-> Str(NO_PLUGIN_TYPE)]
  /\ last.op = "set compiler"

\* the version of the last id of ids whose key is k
LastVersion(ids, k) ==
  ids[CHOOSE i \in 1..Len(ids) :
        /\ ids[i].key = k
        /\ \A j \in (i + 1)..Len(ids) : ids[j].key # k].version

\* C6: dependency merge is override: after addDependency(id) (or
\* addDependencies(ids)) the mapping holds exactly one entry for the key of
\* each added id, its value is the version of the id added last, also when the
\* key was there with another version, and the entries under the other keys
\* are what they were.
C6_MergeIsOverride ==
  (last.op \in {"addDependency", "addDependencies"})
    => LET ids == IF last.op = "addDependency" THEN <<last.arg>> ELSE last.arg
           pre == IF last.pre.kind = "object" THEN last.pre.o ELSE <<>>
       IN /\ dependencies.kind = "object"
          /\ \A k \in DepKeys :
               IF \E i \in 1..Len(ids) : ids[i].key = k
               THEN /\ Cardinality({j \in 1..Len(dependencies.o) : dependencies.o[j].k = k}) = 1
                    /\ Get(dependencies.o, k) = Str(LastVersion(ids, k))
               ELSE /\ HasKey(dependencies.o, k) <=> HasKey(pre, k)
                    /\ HasKey(pre, k) => Get(dependencies.o, k) = Get(pre, k)

C6_Witness ==
  /\ last.op = "addDependency"
  /\ last.pre.kind = "object"
  /\ HasKey(last.pre.o, "foo")
  /\ HasKey(last.pre.o, "bar")
  /\ last.arg.key = "foo"
  /\ Get(last.pre.o, "foo") # Str(last.arg.version)
  /\ Get(dependencies.o, "foo") = Str(last.arg.version)

\* no environment of the type is declared: nothing, an empty set or the sentinel
NoEnvDeclared(type) ==
  given[type].val \in {Undefined, Obj(<<>>), Str(NO_PLUGIN_TYPE)}

\* C7: when no environment of the requested type is declared, loadCompiler,
\* loadTester and loadEnv return null or undefined and do not call the plugin
\* factory.
C7_NoEnvNoFactoryCall ==
  (last.op \in LoadOps /\ NoEnvDeclared(last.type))
    => /\ last.r.calls = <<>>
       /\ last.r.ret \in {"null", "undefined"}

C7_Witness ==
  /\ last.op = "loadEnv"
  /\ last.type = TESTER_ENV_TYPE
  /\ given.tester = [via |-> "setter", val |-> Str(NO_PLUGIN_TYPE)]
  /\ last.r.calls = <<>>

\* C8 as stated: the property bag given to the plugin factory has the eight
\* keys name, consumerPath, scopePath, rawConfig, files, configPath, envType
\* and context, and no others, configPath being the model's path.
C8_EightKeys ==
  (last.op \in LoadOps /\ last.r.calls # <<>>)
    => LET bag == last.r.calls[1]
       IN /\ DOMAIN bag = {"name", "consumerPath", "scopePath", "rawConfig", "files",
                           "configPath", "envType", "context"}
          /\ bag.configPath = path

\* C8, amended: the property bag given to the plugin factory has the nine keys
\* name, consumerPath, scopePath, rawConfig, files, bitJsonPath, options,
\* envType and context, and no others: name is the first key of the
\* environment set, rawConfig, files and options are those of that entry,
\* bitJsonPath is the model's path, envType the requested type, and
\* consumerPath, scopePath and context are the arguments of the call.
C8_NineKeys ==
  (last.op \in LoadOps /\ last.r.calls # <<>>)
    => LET bag == last.r.calls[1]
           envs == given[last.type].val
           first == transformEnvToObject(envs).o[1]
       IN /\ Len(last.r.calls) = 1
          /\ DOMAIN bag = {"name", "consumerPath", "scopePath", "rawConfig", "files",
                           "bitJsonPath", "options", "envType", "context"}
          /\ bag.name = first.k
          /\ bag.rawConfig = first.v.rawConfig
          /\ bag.files = first.v.files
          /\ bag.options = first.v.options
          /\ bag.bitJsonPath = path
          /\ bag.envType = last.type
          /\ bag.consumerPath = last.consumerPath
          /\ bag.scopePath = last.scopePath
          /\ bag.context = last.context

C8_Witness ==
  /\ last.op = "loadEnv"
  /\ last.type = COMPILER_ENV_TYPE
  /\ given.compiler.val.kind = "object"
  /\ Len(given.compiler.val.o) = 2
  /\ last.r.calls # <<>>
  /\ last.r.calls[1].name = "b"
  /\ last.r.calls[1].options = "{o:1}"
  /\ last.r.calls[1].context = "ctx"

\* C9: removeIfExist is gated on existence: when bit.json does not exist it
\* logs nothing, removes nothing and returns false; when bit.json exists it
\* logs, removes the file and returns true.
C9_RemoveIfExist ==
  (last.op = "removeIfExist")
    => IF last.existed
       THEN last.logged = 1 /\ ~bitJsonFile.exists /\ last.ret = "true"
       ELSE last.logged = 0 /\ last.removeCalls = 0 /\ last.ret = "false"

\* C10: addDependencies([]) is a no-op in every state of a model, a freshly
\* constructed one included: dependencies, and so toPlainObject(), are what
\* they were, and the model itself is returned.
C10_EmptyAddIsNoOp ==
  (last.op = "addDependencies" /\ last.arg = <<>>)
    => /\ dependencies = last.pre
       /\ toPlainObject = last.prePlain
       /\ last.ret = "this"

====
